---- MODULE Spec2Model ----
(***************************************************************************)
(* Model of the operation-encoding core of stellar-base-rs:               *)
(*   src/operations/change_trust.rs  (ChangeTrustOperation + builder)      *)
(*   src/operations/inflation.rs     (InflationOperation + builder)        *)
(* A client holds a builder and an operation value, and calls the public   *)
(* functions of the two files on them in any order.                        *)
(***************************************************************************)
EXTENDS Integers, Sequences, FiniteSets, TLC

\* ------------------------------------------------------------------ bounds
\* Largest representable amount of the scaled-down signed integer that
\* stands for i64: values range over -(MaxLimit+1) .. MaxLimit.
MaxLimit == 2

Int64Min == -(MaxLimit + 1)
Int64Max == MaxLimit
Int64Range == Int64Min .. Int64Max
Int64Mod == 2 * (MaxLimit + 1)

\* ------------------------------------------------------------- value types
None == [some |-> FALSE]
Some(x) == [some |-> TRUE, v |-> x]

Ok(x) == [ok |-> TRUE, v |-> x]
Err(e) == [ok |-> FALSE, err |-> e]

\* Error::InvalidOperation(msg), Error::InvalidStroopsAmount
InvalidOperation(msg) == [error |-> "InvalidOperation", msg |-> msg]
InvalidStroopsAmount == [error |-> "InvalidStroopsAmount", msg |-> ""]
InvalidAsset == [error |-> "InvalidAsset", msg |-> ""]

\* crypto::MuxedAccount values: the key pairs of the tests that are used as
\* source accounts (kp1 is the issuer of the asset)
Accounts == {"kp0", "kp2"}
OptAccounts == {None} \cup {Some(a) : a \in Accounts}

\* amount::Stroops, a wrapper of an i64
Stroops(n) == [stroops |-> n]
to_i64(s) == s.stroops
StroopsMax == Stroops(Int64Max)
AllStroops == {Stroops(n) : n \in Int64Range}
OptStroops == {None} \cup {Some(s) : s \in AllStroops}

\* xdr::Int64
XdrInt64(n) == [value |-> n]
to_xdr_int64(s) == Ok(XdrInt64(s.stroops))

\* asset::Asset and its xdr form
NativeAsset == [type |-> "native", code |-> "", issuer |-> ""]
CreditAsset(code, issuer) == [type |-> "credit", code |-> code, issuer |-> issuer]
Assets == {NativeAsset, CreditAsset("FOOBAR", "kp1")}

XdrNative == [type |-> "ASSET_TYPE_NATIVE", asset_code |-> "", issuer |-> ""]
XdrCredit(code, issuer) ==
    [type |-> "ASSET_TYPE_CREDIT_ALPHANUM12", asset_code |-> code, issuer |-> issuer]
XdrBadLine == [type |-> "ASSET_TYPE_CREDIT_ALPHANUM12", asset_code |-> "", issuer |-> "kp1"]

AssetToXdr(a) ==
    IF a.type = "native" THEN Ok(XdrNative) ELSE Ok(XdrCredit(a.code, a.issuer))

AssetFromXdr(line) ==
    IF line.type = "ASSET_TYPE_NATIVE" THEN Ok(NativeAsset)
    ELSE IF line.asset_code = "" THEN Err(InvalidAsset)
    ELSE Ok(CreditAsset(line.asset_code, line.issuer))

XdrLines == {XdrNative, XdrCredit("FOOBAR", "kp1"), XdrBadLine}

\* xdr::ChangeTrustOp and xdr::OperationBody
XdrChangeTrustOp(line, limit) == [line |-> line, limit |-> limit]
BodyChangeTrust(inner) == [type |-> "ChangeTrust", inner |-> inner]
BodyInflation == [type |-> "Inflation", inner |-> <<>>]
XdrChangeTrustOps == {XdrChangeTrustOp(l, XdrInt64(n)) : l \in XdrLines, n \in Int64Range}

\* ------------------------------------------------- change_trust.rs, values
ChangeTrustOperation(source_account, asset, limit) ==
    [kind |-> "ChangeTrust", source_account |-> source_account,
     asset |-> asset, limit |-> limit]

ChangeTrustOperationBuilder(source_account, asset, limit) ==
    [moved |-> FALSE, source_account |-> source_account,
     asset |-> asset, limit |-> limit]

\* A builder that a consuming call (build, a failed with_limit) has taken.
Moved == [moved |-> TRUE]

\* ChangeTrustOperationBuilder::new(): Default::default()
NewChangeTrustBuilder == ChangeTrustOperationBuilder(None, None, None)

\* to_xdr_operation_body with an absent limit written as the maximum amount
\* instead of the sentinel 0.
to_xdr_operation_body_none_as_max(op) ==
    LET line == AssetToXdr(op.asset) IN
    IF ~line.ok THEN line
    ELSE LET limit == IF ~op.limit.some THEN Ok(XdrInt64(Int64Max))
                      ELSE to_xdr_int64(op.limit.v) IN
         IF ~limit.ok THEN limit
         ELSE Ok(BodyChangeTrust(XdrChangeTrustOp(line.v, limit.v)))

to_xdr_operation_body(op) ==
    LET line == AssetToXdr(op.asset) IN
    IF ~line.ok THEN line
    ELSE LET limit == IF ~op.limit.some THEN Ok(XdrInt64(0))
                      ELSE to_xdr_int64(op.limit.v) IN
         IF ~limit.ok THEN limit
         ELSE Ok(BodyChangeTrust(XdrChangeTrustOp(line.v, limit.v)))

\* from_xdr_operation_body re-validating the limit as build() does.
from_xdr_operation_body_validating(source_account, x) ==
    LET asset == AssetFromXdr(x.line) IN
    IF ~asset.ok THEN asset
    ELSE IF x.limit.value < 0
    THEN Err(InvalidOperation("change trust limit must be positive"))
    ELSE LET limit == IF x.limit.value = 0 THEN None
                      ELSE Some(Stroops(x.limit.value)) IN
         Ok(ChangeTrustOperation(source_account, asset.v, limit))

\* from_xdr_operation_body taking every non-positive wire limit as absent.
from_xdr_operation_body_clamping(source_account, x) ==
    LET asset == AssetFromXdr(x.line) IN
    IF ~asset.ok THEN asset
    ELSE LET limit == IF x.limit.value <= 0 THEN None
                      ELSE Some(Stroops(x.limit.value)) IN
         Ok(ChangeTrustOperation(source_account, asset.v, limit))

\* from_xdr_operation_body keeping the wire value 0 as Some(0).
from_xdr_operation_body_zero_as_some(source_account, x) ==
    LET asset == AssetFromXdr(x.line) IN
    IF ~asset.ok THEN asset
    ELSE Ok(ChangeTrustOperation(source_account, asset.v,
                                 Some(Stroops(x.limit.value))))

\* from_xdr_operation_body dropping the source account it is given.
from_xdr_operation_body_no_source(source_account, x) ==
    LET asset == AssetFromXdr(x.line) IN
    IF ~asset.ok THEN asset
    ELSE LET limit == IF x.limit.value = 0 THEN None
                      ELSE Some(Stroops(x.limit.value)) IN
         Ok(ChangeTrustOperation(None, asset.v, limit))

from_xdr_operation_body(source_account, x) ==
    LET asset == AssetFromXdr(x.line) IN
    IF ~asset.ok THEN asset
    ELSE LET limit == IF x.limit.value = 0 THEN None
                      ELSE Some(Stroops(x.limit.value)) IN
         Ok(ChangeTrustOperation(source_account, asset.v, limit))

with_source_account(self, source) ==
    [self EXCEPT !.source_account = Some(source)]

with_asset(self, asset) ==
    [self EXCEPT !.asset = Some(asset)]

\* The argument of with_limit: None, Some(a Stroops) or Some(a value whose
\* try_into() fails).
TryInto(l) == IF l.conv = "ok" THEN Ok(l.stroops) ELSE Err("out of range")
LimitArgs ==
    {None} \cup {Some([conv |-> "ok", stroops |-> s]) : s \in AllStroops}
           \cup {Some([conv |-> "err", stroops |-> Stroops(0)])}

with_limit(self, limit) ==
    LET conv == IF limit.some THEN TryInto(limit.v) ELSE Ok(None) IN
    IF limit.some /\ ~conv.ok THEN Err(InvalidStroopsAmount)
    ELSE Ok([self EXCEPT !.limit = IF limit.some THEN Some(conv.v) ELSE None])

\* build() with the limit check off by one: 0 is rejected too.
build_strict(self) ==
    IF ~self.asset.some
    THEN Err(InvalidOperation("missing change trust asset"))
    ELSE IF self.limit.some /\ to_i64(self.limit.v) <= 0
    THEN Err(InvalidOperation("change trust limit must be positive"))
    ELSE Ok(ChangeTrustOperation(self.source_account, self.asset.v, self.limit))

\* build() checking the limit before the asset.
build_limit_first(self) ==
    IF self.limit.some /\ to_i64(self.limit.v) < 0
    THEN Err(InvalidOperation("change trust limit must be positive"))
    ELSE IF ~self.asset.some
    THEN Err(InvalidOperation("missing change trust asset"))
    ELSE Ok(ChangeTrustOperation(self.source_account, self.asset.v, self.limit))

\* build() without the limit check.
build_unchecked(self) ==
    IF ~self.asset.some
    THEN Err(InvalidOperation("missing change trust asset"))
    ELSE Ok(ChangeTrustOperation(self.source_account, self.asset.v, self.limit))

build(self) ==
    IF ~self.asset.some
    THEN Err(InvalidOperation("missing change trust asset"))
    ELSE IF self.limit.some /\ to_i64(self.limit.v) < 0
    THEN Err(InvalidOperation("change trust limit must be positive"))
    ELSE Ok(ChangeTrustOperation(self.source_account, self.asset.v, self.limit))

\* ------------------------------------------------------ inflation.rs, values
InflationOperation(source_account) ==
    [kind |-> "Inflation", source_account |-> source_account]

InflationOperationBuilder(source_account) ==
    [moved |-> FALSE, source_account |-> source_account]

\* InflationOperationBuilder::new(): Default::default()
NewInflationBuilder == InflationOperationBuilder(None)

inflation_to_xdr_operation_body(op) == Ok(BodyInflation)

inflation_from_xdr_operation_body(source_account) ==
    Ok(InflationOperation(source_account))

inflation_with_source_account(self, source) ==
    [self EXCEPT !.source_account = Some(source)]

\* build() forgetting the source account.
inflation_build_no_source(self) == InflationOperation(None)

inflation_build(self) == InflationOperation(self.source_account)

\* ------------------------------------- operations, transaction and envelope
\* Operation::to_xdr / from_xdr: the optional source account beside the body
\* of the variant.
operation_to_xdr(o) ==
    LET body == IF o.kind = "ChangeTrust" THEN to_xdr_operation_body(o)
                ELSE inflation_to_xdr_operation_body(o) IN
    IF ~body.ok THEN body
    ELSE Ok([source_account |-> o.source_account, body |-> body.v])

operation_from_xdr(x) ==
    IF x.body.type = "ChangeTrust"
    THEN from_xdr_operation_body(x.source_account, x.body.inner)
    ELSE inflation_from_xdr_operation_body(x.source_account)

\* Transaction::builder(source, sequence, base_fee).add_operation(..)
\*   .into_transaction(): fee = base fee * operation count.
into_transaction(source, sequence, base_fee, operations) ==
    IF Len(operations) = 0
    THEN Err(InvalidOperation("transaction without operations"))
    ELSE Ok([source_account |-> source, sequence |-> sequence,
             fee |-> base_fee * Len(operations), operations |-> operations,
             signatures |-> <<>>])

\* words of the binary encoding
AccountIds == <<"kp0", "kp1", "kp2">>
AssetCodes == <<"FOOBAR">>
OperationTypes == <<"ChangeTrust", "Inflation">>
AssetTypes == <<"ASSET_TYPE_NATIVE", "ASSET_TYPE_CREDIT_ALPHANUM12">>
IndexOf(seq, x) == CHOOSE i \in 1..Len(seq) : seq[i] = x

WriteInt64(n) == <<(n + Int64Mod) % Int64Mod>>
ReadInt64(w) == IF w >= Int64Mod \div 2 THEN w - Int64Mod ELSE w

WriteOptAccount(a) ==
    IF a.some THEN <<1, IndexOf(AccountIds, a.v)>> ELSE <<0>>

WriteAsset(line) ==
    IF line.type = "ASSET_TYPE_NATIVE" THEN <<IndexOf(AssetTypes, line.type)>>
    ELSE <<IndexOf(AssetTypes, line.type), IndexOf(AssetCodes, line.asset_code),
           IndexOf(AccountIds, line.issuer)>>

WriteOperation(x) ==
    WriteOptAccount(x.source_account)
      \o <<IndexOf(OperationTypes, x.body.type)>>
      \o (IF x.body.type = "ChangeTrust"
          THEN WriteAsset(x.body.inner.line) \o WriteInt64(x.body.inner.limit.value)
          ELSE <<>>)

RECURSIVE WriteOperations(_)
WriteOperations(xs) ==
    IF Len(xs) = 0 THEN <<>>
    ELSE WriteOperation(Head(xs)) \o WriteOperations(Tail(xs))

WriteTransaction(tx, xops) ==
    <<IndexOf(AccountIds, tx.source_account), tx.fee>>
      \o WriteInt64(tx.sequence) \o <<Len(xops)>> \o WriteOperations(xops)

RECURSIVE WriteSignatures(_)
WriteSignatures(sigs) ==
    IF Len(sigs) = 0 THEN <<>>
    ELSE <<Head(sigs).hint, Head(sigs).signature>> \o WriteSignatures(Tail(sigs))

\* readers return [ok, v, rest]
Parsed(v, rest) == [ok |-> TRUE, v |-> v, rest |-> rest]
Malformed == [ok |-> FALSE, v |-> None, rest |-> <<>>]

ReadOptAccount(ws) ==
    IF Len(ws) >= 1 /\ ws[1] = 0 THEN Parsed(None, SubSeq(ws, 2, Len(ws)))
    ELSE IF Len(ws) >= 2 /\ ws[1] = 1 /\ ws[2] \in 1..Len(AccountIds)
    THEN Parsed(Some(AccountIds[ws[2]]), SubSeq(ws, 3, Len(ws)))
    ELSE Malformed

ReadAsset(ws) ==
    IF Len(ws) >= 1 /\ ws[1] = IndexOf(AssetTypes, "ASSET_TYPE_NATIVE")
    THEN Parsed(XdrNative, SubSeq(ws, 2, Len(ws)))
    ELSE IF /\ Len(ws) >= 3
            /\ ws[1] = IndexOf(AssetTypes, "ASSET_TYPE_CREDIT_ALPHANUM12")
            /\ ws[2] \in 1..Len(AssetCodes)
            /\ ws[3] \in 1..Len(AccountIds)
    THEN Parsed(XdrCredit(AssetCodes[ws[2]], AccountIds[ws[3]]), SubSeq(ws, 4, Len(ws)))
    ELSE Malformed

ReadBody(ws) ==
    IF Len(ws) = 0 \/ ws[1] \notin 1..Len(OperationTypes) THEN Malformed
    ELSE IF OperationTypes[ws[1]] = "Inflation"
    THEN Parsed(BodyInflation, Tail(ws))
    ELSE LET line == ReadAsset(Tail(ws)) IN
         IF ~line.ok \/ Len(line.rest) = 0 THEN Malformed
         ELSE Parsed(BodyChangeTrust(XdrChangeTrustOp(line.v,
                                        XdrInt64(ReadInt64(Head(line.rest))))),
                     Tail(line.rest))

ReadOperation(ws) ==
    LET source == ReadOptAccount(ws) IN
    IF ~source.ok THEN Malformed
    ELSE LET body == ReadBody(source.rest) IN
         IF ~body.ok THEN Malformed
         ELSE Parsed([source_account |-> source.v, body |-> body.v], body.rest)

RECURSIVE ReadOperations(_, _)
ReadOperations(ws, n) ==
    IF n = 0 THEN Parsed(<<>>, ws)
    ELSE LET first == ReadOperation(ws) IN
         IF ~first.ok THEN Malformed
         ELSE LET others == ReadOperations(first.rest, n - 1) IN
              IF ~others.ok THEN Malformed
              ELSE Parsed(<<first.v>> \o others.v, others.rest)

RECURSIVE ReadSignatures(_, _)
ReadSignatures(ws, n) ==
    IF n = 0 THEN Parsed(<<>>, ws)
    ELSE IF Len(ws) < 2 THEN Malformed
    ELSE LET others == ReadSignatures(SubSeq(ws, 3, Len(ws)), n - 1) IN
         IF ~others.ok THEN Malformed
         ELSE Parsed(<<[hint |-> ws[1], signature |-> ws[2]]>> \o others.v,
                     others.rest)

\* the text form: every word as two digits
Radix == Int64Mod

RECURSIVE Base64Encode(_)
Base64Encode(ws) ==
    IF Len(ws) = 0 THEN <<>>
    ELSE <<Head(ws) \div Radix, Head(ws) % Radix>> \o Base64Encode(Tail(ws))

RECURSIVE Base64Decode(_)
Base64Decode(ds) ==
    IF Len(ds) = 0 THEN Ok(<<>>)
    ELSE IF Len(ds) = 1 \/ ds[1] \notin 0..(Radix - 1) \/ ds[2] \notin 0..(Radix - 1)
    THEN Err(InvalidOperation("malformed text"))
    ELSE LET others == Base64Decode(SubSeq(ds, 3, Len(ds))) IN
         IF ~others.ok THEN others
         ELSE Ok(<<ds[1] * Radix + ds[2]>> \o others.v)

RECURSIVE OperationsToXdr(_)
OperationsToXdr(ops) ==
    IF Len(ops) = 0 THEN Ok(<<>>)
    ELSE LET first == operation_to_xdr(Head(ops)) IN
         IF ~first.ok THEN first
         ELSE LET others == OperationsToXdr(Tail(ops)) IN
              IF ~others.ok THEN others ELSE Ok(<<first.v>> \o others.v)

RECURSIVE OperationsFromXdr(_)
OperationsFromXdr(xs) ==
    IF Len(xs) = 0 THEN Ok(<<>>)
    ELSE LET first == operation_from_xdr(Head(xs)) IN
         IF ~first.ok THEN first
         ELSE LET others == OperationsFromXdr(Tail(xs)) IN
              IF ~others.ok THEN others ELSE Ok(<<first.v>> \o others.v)

RECURSIVE SumWords(_)
SumWords(ws) == IF Len(ws) = 0 THEN 0 ELSE Head(ws) + SumWords(Tail(ws))

\* tx.sign(key, network): one more decorated signature over the network id
\* followed by the encoded transaction.
sign(tx, key, network) ==
    LET xops == OperationsToXdr(tx.operations) IN
    IF ~xops.ok THEN xops
    ELSE LET payload == <<network>> \o WriteTransaction(tx, xops.v) IN
         Ok([tx EXCEPT !.signatures =
                Append(@, [hint |-> IndexOf(AccountIds, key),
                           signature |-> (SumWords(payload) + IndexOf(AccountIds, key))
                                            % Radix])])

\* tx.to_envelope()
to_envelope(tx) ==
    [tx |-> [tx EXCEPT !.signatures = <<>>], signatures |-> tx.signatures]

\* envelope.xdr_base64()
xdr_base64(envelope) ==
    LET xops == OperationsToXdr(envelope.tx.operations) IN
    IF ~xops.ok THEN xops
    ELSE Ok(Base64Encode(WriteTransaction(envelope.tx, xops.v)
                           \o <<Len(envelope.signatures)>>
                           \o WriteSignatures(envelope.signatures)))

\* TransactionEnvelope::from_xdr_base64(text)
from_xdr_base64(text) ==
    LET words == Base64Decode(text) IN
    IF ~words.ok THEN words
    ELSE IF Len(words.v) < 4 \/ words.v[1] \notin 1..Len(AccountIds)
    THEN Err(InvalidOperation("malformed envelope"))
    ELSE LET ws == words.v
             xops == ReadOperations(SubSeq(ws, 5, Len(ws)), ws[4]) IN
         IF ~xops.ok \/ Len(xops.rest) = 0
         THEN Err(InvalidOperation("malformed envelope"))
         ELSE LET sigs == ReadSignatures(Tail(xops.rest), Head(xops.rest))
                  ops == OperationsFromXdr(xops.v) IN
              IF ~sigs.ok \/ Len(sigs.rest) # 0
              THEN Err(InvalidOperation("malformed envelope"))
              ELSE IF ~ops.ok THEN ops
              ELSE Ok([tx |-> [source_account |-> AccountIds[ws[1]],
                               sequence |-> ReadInt64(ws[3]),
                               fee |-> ws[2],
                               operations |-> ops.v,
                               signatures |-> <<>>],
                       signatures |-> sigs.v])

\* ------------------------------------------------------------------- state
VARIABLES
    builder,   \* the client's ChangeTrustOperationBuilder, or Moved
    ibuilder,  \* the client's InflationOperationBuilder, or Moved
    op,        \* the client's operation value, or NoOp
    origin,    \* how op was obtained: "none", "build", "from_xdr" or "mut"
    last,      \* the last call made: [call, arg]
    res        \* what the last call returned

vars == <<builder, ibuilder, op, origin, last, res>>

NoOp == [kind |-> "none"]
Call(name, arg) == [call |-> name, arg |-> arg]

Init ==
    /\ builder = Moved
    /\ ibuilder = Moved
    /\ op = NoOp
    /\ origin = "none"
    /\ last = Call("init", None)
    /\ res = Ok(None)

\* The client runs one scenario at a time, as each test of the two files
\* does: new() starts a scenario with a fresh builder, and received xdr is
\* decoded when no builder is being filled.
Idle == builder.moved /\ ibuilder.moved

\* ---------------------------------------------- ChangeTrustOperationBuilder
New ==
    /\ builder' = NewChangeTrustBuilder
    /\ ibuilder' = Moved
    /\ op' = NoOp
    /\ origin' = "none"
    /\ last' = Call("new", None)
    /\ res' = Ok(None)

WithSourceAccount ==
    /\ ~builder.moved
    /\ \E a \in Accounts :
        /\ builder' = with_source_account(builder, a)
        /\ last' = Call("with_source_account", Some(a))
    /\ res' = Ok(None)
    /\ UNCHANGED <<ibuilder, op, origin>>

WithAsset ==
    /\ ~builder.moved
    /\ \E a \in Assets :
        /\ builder' = with_asset(builder, a)
        /\ last' = Call("with_asset", Some(a))
    /\ res' = Ok(None)
    /\ UNCHANGED <<ibuilder, op, origin>>

WithLimit ==
    /\ ~builder.moved
    /\ \E l \in LimitArgs :
        LET r == with_limit(builder, l) IN
        /\ builder' = IF r.ok THEN r.v ELSE Moved
        /\ last' = Call("with_limit", l)
        /\ res' = IF r.ok THEN Ok(None) ELSE r
    /\ UNCHANGED <<ibuilder, op, origin>>

Build ==
    /\ ~builder.moved
    /\ LET r == build(builder) IN
        /\ res' = r
        /\ op' = IF r.ok THEN r.v ELSE op
        /\ origin' = IF r.ok THEN "build" ELSE origin
        /\ last' = Call("build", Some(builder))
    /\ builder' = Moved
    /\ UNCHANGED ibuilder

\* ------------------------------------------------------ ChangeTrustOperation
SourceAccountMut ==
    /\ op.kind = "ChangeTrust"
    /\ \E s \in OptAccounts :
        /\ op' = [op EXCEPT !.source_account = s]
        /\ last' = Call("source_account_mut", s)
    /\ origin' = "mut"
    /\ res' = Ok(None)
    /\ UNCHANGED <<builder, ibuilder>>

AssetMut ==
    /\ op.kind = "ChangeTrust"
    /\ \E a \in Assets :
        /\ op' = [op EXCEPT !.asset = a]
        /\ last' = Call("asset_mut", Some(a))
    /\ origin' = "mut"
    /\ res' = Ok(None)
    /\ UNCHANGED <<builder, ibuilder>>

LimitMut ==
    /\ op.kind = "ChangeTrust"
    /\ \E l \in OptStroops :
        /\ op' = [op EXCEPT !.limit = l]
        /\ last' = Call("limit_mut", l)
    /\ origin' = "mut"
    /\ res' = Ok(None)
    /\ UNCHANGED <<builder, ibuilder>>

ToXdrOperationBody ==
    /\ op.kind = "ChangeTrust"
    /\ res' = to_xdr_operation_body(op)
    /\ last' = Call("to_xdr_operation_body", None)
    /\ UNCHANGED <<builder, ibuilder, op, origin>>

FromXdrOperationBody ==
    /\ Idle
    /\ \E s \in OptAccounts, x \in XdrChangeTrustOps :
        LET r == from_xdr_operation_body(s, x) IN
        /\ res' = r
        /\ op' = IF r.ok THEN r.v ELSE op
        /\ origin' = IF r.ok THEN "from_xdr" ELSE origin
        /\ last' = Call("from_xdr_operation_body", Some([source_account |-> s, x |-> x]))
        /\ UNCHANGED <<builder, ibuilder>>

\* decode(encode(op)): the body of the client's operation, decoded again with
\* the operation's own source account.
EncodeDecode ==
    /\ op.kind = "ChangeTrust"
    /\ LET body == to_xdr_operation_body(op) IN
        res' = IF body.ok
               THEN from_xdr_operation_body(op.source_account, body.v.inner)
               ELSE body
    /\ last' = Call("encode_decode", None)
    /\ UNCHANGED <<builder, ibuilder, op, origin>>

\* encode(decode(x)) of a received xdr::ChangeTrustOp.
DecodeEncode ==
    /\ Idle
    /\ \E s \in OptAccounts, x \in XdrChangeTrustOps :
        LET r == from_xdr_operation_body(s, x) IN
        /\ res' = IF r.ok THEN to_xdr_operation_body(r.v) ELSE r
        /\ op' = IF r.ok THEN r.v ELSE op
        /\ origin' = IF r.ok THEN "from_xdr" ELSE origin
        /\ last' = Call("decode_encode", Some([source_account |-> s, x |-> x]))
        /\ UNCHANGED <<builder, ibuilder>>

\* ------------------------------------------------ InflationOperationBuilder
InflationNew ==
    /\ ibuilder' = NewInflationBuilder
    /\ builder' = Moved
    /\ op' = NoOp
    /\ origin' = "none"
    /\ last' = Call("inflation_new", None)
    /\ res' = Ok(None)

InflationWithSourceAccount ==
    /\ ~ibuilder.moved
    /\ \E a \in Accounts :
        /\ ibuilder' = inflation_with_source_account(ibuilder, a)
        /\ last' = Call("inflation_with_source_account", Some(a))
    /\ res' = Ok(None)
    /\ UNCHANGED <<builder, op, origin>>

InflationBuild ==
    /\ ~ibuilder.moved
    /\ op' = inflation_build(ibuilder)
    /\ origin' = "build"
    /\ res' = Ok(inflation_build(ibuilder))
    /\ last' = Call("inflation_build", Some(ibuilder))
    /\ ibuilder' = Moved
    /\ UNCHANGED builder

\* -------------------------------------------------------- InflationOperation
InflationSourceAccountMut ==
    /\ op.kind = "Inflation"
    /\ \E s \in OptAccounts :
        /\ op' = [op EXCEPT !.source_account = s]
        /\ last' = Call("inflation_source_account_mut", s)
    /\ origin' = "mut"
    /\ res' = Ok(None)
    /\ UNCHANGED <<builder, ibuilder>>

InflationToXdrOperationBody ==
    /\ op.kind = "Inflation"
    /\ res' = inflation_to_xdr_operation_body(op)
    /\ last' = Call("inflation_to_xdr_operation_body", None)
    /\ UNCHANGED <<builder, ibuilder, op, origin>>

InflationFromXdrOperationBody ==
    /\ Idle
    /\ \E s \in OptAccounts :
        LET r == inflation_from_xdr_operation_body(s) IN
        /\ res' = r
        /\ op' = r.v
        /\ origin' = "from_xdr"
        /\ last' = Call("inflation_from_xdr_operation_body", s)
        /\ UNCHANGED <<builder, ibuilder>>

InflationEncodeDecode ==
    /\ op.kind = "Inflation"
    /\ LET body == inflation_to_xdr_operation_body(op) IN
        res' = IF body.ok /\ body.v.type = "Inflation"
               THEN inflation_from_xdr_operation_body(op.source_account)
               ELSE Err(InvalidOperation("not an inflation body"))
    /\ last' = Call("inflation_encode_decode", None)
    /\ UNCHANGED <<builder, ibuilder, op, origin>>

\* ------------------------------------------------------ the tests' scenario
\* The body of each test of the two files: the operation goes into a
\* transaction of source account t, which t signs once; the envelope is
\* written as text and read back. The sequence number is some i64, the base
\* fee is one unit per operation and the network id is the word 0.
EnvelopeRoundTrip ==
    /\ op.kind # "none"
    /\ \E t \in Accounts :
        LET tx == into_transaction(t, Int64Max, 1, <<op>>)
            signed == IF tx.ok THEN sign(tx.v, t, 0) ELSE tx
            envelope == to_envelope(signed.v)
            xdr == IF signed.ok THEN xdr_base64(envelope) ELSE signed
        IN
        /\ res' = IF ~xdr.ok THEN xdr
                  ELSE Ok([envelope |-> envelope, xdr |-> xdr.v,
                           back |-> from_xdr_base64(xdr.v)])
        /\ last' = Call("envelope_round_trip", Some(t))
    /\ UNCHANGED <<builder, ibuilder, op, origin>>

Next ==
    \/ New
    \/ WithSourceAccount
    \/ WithAsset
    \/ WithLimit
    \/ Build
    \/ SourceAccountMut
    \/ AssetMut
    \/ LimitMut
    \/ ToXdrOperationBody
    \/ FromXdrOperationBody
    \/ EncodeDecode
    \/ DecodeEncode
    \/ InflationNew
    \/ InflationWithSourceAccount
    \/ InflationBuild
    \/ InflationSourceAccountMut
    \/ InflationToXdrOperationBody
    \/ InflationFromXdrOperationBody
    \/ InflationEncodeDecode
    \/ EnvelopeRoundTrip

Spec == Init /\ [][Next]_vars

\* ------------------------------------------------------------------ claims
Negative(limit) == limit.some /\ to_i64(limit.v) < 0

MissingAsset == Err(InvalidOperation("missing change trust asset"))
NegativeLimit == Err(InvalidOperation("change trust limit must be positive"))

\* C1: every operation build() returns, decoded from its own encoding with
\* its own source account, equals the operation in all three fields.
C1_RoundTrip ==
    (last.call = "encode_decode" /\ origin = "build") => res = Ok(op)

C3_ValidationMonotonicity ==
    /\ (last.call = "with_limit" /\ res.ok /\ last.arg.some)
          => builder.limit = Some(last.arg.v.stroops)
    /\ (last.call = "build" /\ last.arg.v.asset.some /\ last.arg.v.limit.some)
          => LET n == to_i64(last.arg.v.limit.v) IN
             /\ res.ok <=> n >= 0
             /\ n < 0 => (res = NegativeLimit /\ op = NoOp)
             /\ n >= 0 => /\ res = Ok(op)
                          /\ op.kind = "ChangeTrust"
                          /\ op.limit = Some(Stroops(n))

C3_Witness ==
    /\ last.call = "build"
    /\ last.arg.v.asset.some
    /\ last.arg.v.limit = Some(Stroops(0))
    /\ res.ok

\* C4: a builder on which with_asset was never called fails build() with
\* the missing-asset error and yields no operation, also when its limit is
\* negative; only with_asset sets the asset.
C4_StateInv ==
    /\ last.call = "new" => ~builder.asset.some
    /\ (last.call = "build" /\ ~last.arg.v.asset.some)
          => (res = MissingAsset /\ op = NoOp)

C4_RequiredField ==
    /\ []C4_StateInv
    /\ [][(~builder.moved /\ ~builder'.moved /\ builder'.asset # builder.asset)
            => last'.call \in {"with_asset", "new"}]_vars

C4_Witness ==
    /\ last.call = "build"
    /\ ~last.arg.v.asset.some
    /\ Negative(last.arg.v.limit)
    /\ res = MissingAsset

\* C5: limit None and limit Some(0) both encode to wire value 0, Some(v)
\* with v # 0 encodes to v, and wire value 0 always decodes to None.
C5_SentinelEquivalence ==
    /\ last.call = "to_xdr_operation_body"
          => /\ res.ok
             /\ res.v.type = "ChangeTrust"
             /\ (~op.limit.some \/ op.limit = Some(Stroops(0)))
                   => res.v.inner.limit = XdrInt64(0)
             /\ (op.limit.some /\ to_i64(op.limit.v) # 0)
                   => res.v.inner.limit = XdrInt64(to_i64(op.limit.v))
    /\ (last.call = "from_xdr_operation_body" /\ res.ok
          /\ last.arg.v.x.limit.value = 0)
          => res.v.limit = None

C5_Witness ==
    /\ last.call = "to_xdr_operation_body"
    /\ origin = "build"
    /\ op.limit = Some(Stroops(0))
    /\ res.v.inner.limit = XdrInt64(0)

\* C8: the inflation builder always builds Operation::Inflation carrying the
\* last source account set (None if none), its body is the field-less
\* marker, decoding always succeeds, and decode(encode(op)) = op.
C8_StateInv ==
    /\ last.call = "inflation_new" => ibuilder = InflationOperationBuilder(None)
    /\ last.call = "inflation_with_source_account"
          => ibuilder.source_account = last.arg
    /\ last.call = "inflation_build"
          => /\ res = Ok(InflationOperation(last.arg.v.source_account))
             /\ op = res.v
    /\ last.call = "inflation_to_xdr_operation_body" => res = Ok(BodyInflation)
    /\ last.call = "inflation_from_xdr_operation_body"
          => (res = Ok(InflationOperation(last.arg)) /\ op = res.v)
    /\ last.call = "inflation_encode_decode" => res = Ok(op)

C8_PayloadLess ==
    /\ []C8_StateInv
    /\ [][ibuilder' # ibuilder
            => last'.call \in {"inflation_new", "inflation_with_source_account",
                               "inflation_build", "new"}]_vars

C8_Witness ==
    /\ last.call = "inflation_build"
    /\ last.arg.v.source_account = Some("kp2")
    /\ op = InflationOperation(Some("kp2"))

\* C9: from_xdr_operation_body succeeds for every wire limit when the asset
\* decodes; n # 0 (negative included) gives Some(n), n = 0 gives None.
C9_NoRevalidation ==
    (last.call = "from_xdr_operation_body" /\ AssetFromXdr(last.arg.v.x.line).ok)
       => LET n == last.arg.v.x.limit.value IN
          /\ res.ok
          /\ op = res.v
          /\ n # 0 => res.v.limit = Some(Stroops(n))
          /\ n = 0 => res.v.limit = None

C9_Witness ==
    /\ last.call = "from_xdr_operation_body"
    /\ last.arg.v.x.limit.value = Int64Min
    /\ res.ok
    /\ Negative(op.limit)

\* C10: encoding what from_xdr_operation_body decoded gives back
\* OperationBody::ChangeTrust of the same wire value, line and limit.
C10_WireInverse ==
    (last.call = "decode_encode" /\ AssetFromXdr(last.arg.v.x.line).ok)
       => res = Ok(BodyChangeTrust(last.arg.v.x))

C10_Witness ==
    /\ last.call = "decode_encode"
    /\ last.arg.v.x.limit.value < 0
    /\ res = Ok(BodyChangeTrust(last.arg.v.x))

\* C6: an envelope of one built operation (change trust without limit or
\* with the maximum limit, or inflation), signed once, read back from its
\* text equals the original: transaction, signature list and limit.
C6_Case ==
    /\ last.call = "envelope_round_trip"
    /\ origin = "build"
    /\ \/ op.kind = "Inflation"
       \/ op.kind = "ChangeTrust" /\ op.limit \in {None, Some(StroopsMax)}

C6_EnvelopeRoundTrip ==
    C6_Case =>
       /\ res.ok
       /\ res.v.envelope.tx.operations = <<op>>
       /\ Len(res.v.envelope.signatures) = 1
       /\ res.v.back = Ok(res.v.envelope)
       /\ res.v.back.v.signatures = res.v.envelope.signatures
       /\ op.kind = "ChangeTrust"
             => res.v.back.v.tx.operations[1].limit = op.limit

C6_Witness ==
    /\ C6_Case
    /\ op.kind = "ChangeTrust"
    /\ op.limit = None
    /\ res.v.back.v.tx.operations[1].limit = None

\* C7: the source account of an operation survives encoding and decoding
\* as it is: an override a stays Some(a) in a transaction of another source
\* account t, no override stays None, and from_xdr_operation_body stores
\* the source account it is given.
C7_SourcePreserved ==
    /\ last.call = "with_source_account" => builder.source_account = last.arg
    /\ (last.call = "build" /\ res.ok)
          => op.source_account = last.arg.v.source_account
    /\ (last.call = "from_xdr_operation_body" /\ res.ok)
          => res.v.source_account = last.arg.v.source_account
    /\ (last.call = "envelope_round_trip" /\ op.kind = "ChangeTrust")
          => /\ res.ok
             /\ res.v.back.ok
             /\ res.v.back.v.tx.source_account = last.arg.v
             /\ res.v.back.v.tx.operations[1].source_account = op.source_account

C7_Witness ==
    /\ last.call = "envelope_round_trip"
    /\ origin = "build"
    /\ op.kind = "ChangeTrust"
    /\ op.source_account = Some("kp2")
    /\ last.arg = Some("kp0")
    /\ res.v.back.v.tx.operations[1].source_account = Some("kp2")

====
